---- MODULE Spec2Model ----
(***************************************************************************)
(* Amount extraction of src/extract_amount.py.                             *)
(*                                                                         *)
(* A Python str is a sequence of one-character strings; an offset into it  *)
(* is 0-based as in Python, so the character at offset i of t is t[i+1].   *)
(* A Decimal is the pair Python's decimal module keeps: the coefficient's  *)
(* digits (`int`, no leading zeros) and the exponent (`exp`), so that      *)
(* amounts beyond the range of machine integers are exact.  A mention's    *)
(* `value` (a Python int) is written as its decimal digits.                *)
(***************************************************************************)
EXTENDS Integers, Sequences, FiniteSets

VARIABLES text, pc, pos, results, origin

vars == <<text, pc, pos, results, origin>>

(***************************************************************************)
(* Characters and strings                                                  *)
(***************************************************************************)
Digits == {"0", "1", "2", "3", "4", "5", "6", "7", "8", "9"}

LowerLetters == <<"a", "b", "c", "d", "e", "f", "g", "h", "i", "j", "k", "l", "m", "n", "o", "p", "q", "r", "s", "t", "u", "v", "w", "x", "y", "z">>

UpperLetters == <<"A", "B", "C", "D", "E", "F", "G", "H", "I", "J", "K", "L", "M", "N", "O", "P", "Q", "R", "S", "T", "U", "V", "W", "X", "Y", "Z">>

Range(s) == {s[i] : i \in 1..Len(s)}

\* the letters beyond ASCII that re.IGNORECASE equates with an ASCII letter:
\* U+017F, U+0131 and U+212A, each written by its name.  The dotted capital
\* I, whose lower-case form is two characters, is not among the characters
\* drawn.
OtherLetters == {"long s", "dotless i", "kelvin sign"}

Letters == Range(LowerLetters) \cup Range(UpperLetters) \cup OtherLetters

\* \d of the re module, on the characters the inputs are drawn from
IsDigit(c) == c \in Digits

\* \s
IsSpace(c) == c \in {" ", "\t", "\n"}

\* \w
IsWord(c) == c \in Digits \/ c \in Letters \/ c = "_"

\* str.lower() on one character
LowerOf == [c \in Range(UpperLetters) |->
               LowerLetters[CHOOSE i \in 1..26 : UpperLetters[i] = c]]

LowerChar(c) ==
    IF c \in DOMAIN LowerOf THEN LowerOf[c]
    ELSE IF c = "kelvin sign" THEN "k"
    ELSE c

\* the lower-case ASCII letter a character matches under re.IGNORECASE, or
\* the character itself
IgnoreCaseChar(c) ==
    IF c = "long s" THEN "s"
    ELSE IF c = "dotless i" THEN "i"
    ELSE LowerChar(c)

IgnoreCase(s) == [i \in 1..Len(s) |-> IgnoreCaseChar(s[i])]

Lower(s) == [i \in 1..Len(s) |-> LowerChar(s[i])]

\* Python's None, where a str is expected and where a Decimal is expected
None == <<"None">>

NoDecimal == [int |-> <<>>, exp |-> 0]

\* t[a:b] for 0 <= a <= b <= len(t)
Slice(t, a, b) == SubSeq(t, a + 1, b)

\* t[i:].startswith(lit)
StartsWithAt(t, i, lit) ==
    /\ i + Len(lit) <= Len(t)
    /\ \A k \in 1..Len(lit) : t[i + k] = lit[k]

\* how a literal of a regex compiled with re.IGNORECASE, lit in lower case,
\* matches at offset i
StartsWithAtIgnoreCase(t, i, lit) ==
    /\ i + Len(lit) <= Len(t)
    /\ \A k \in 1..Len(lit) : IgnoreCaseChar(t[i + k]) = lit[k]

\* \b at offset i of t
WordBoundary(t, i) ==
    (i > 0 /\ IsWord(t[i])) # (i < Len(t) /\ IsWord(t[i + 1]))

\* the offset where a greedy \s* that starts at offset i ends
RECURSIVE SkipSpaces(_, _)
SkipSpaces(t, i) ==
    IF i < Len(t) /\ IsSpace(t[i + 1]) THEN SkipSpaces(t, i + 1) ELSE i

\* str.replace(c, '')
RECURSIVE RemoveChar(_, _)
RemoveChar(s, c) ==
    IF s = <<>> THEN <<>>
    ELSE IF Head(s) = c THEN RemoveChar(Tail(s), c)
    ELSE <<Head(s)>> \o RemoveChar(Tail(s), c)

\* str.strip()
RECURSIVE Strip(_)
Strip(s) ==
    IF s = <<>> THEN <<>>
    ELSE IF IsSpace(Head(s)) THEN Strip(Tail(s))
    ELSE IF IsSpace(s[Len(s)]) THEN Strip(SubSeq(s, 1, Len(s) - 1))
    ELSE s

\* re.search(r'\b(a1|a2|...)\b', m): some alternative stands between two
\* word boundaries of m
SearchBounded(alts, m) ==
    \E i \in 0..Len(m) : \E a \in alts :
        /\ StartsWithAt(m, i, a)
        /\ WordBoundary(m, i)
        /\ WordBoundary(m, i + Len(a))

(***************************************************************************)
(* Decimal arithmetic (decimal.Decimal on non-negative finite numbers)     *)
(***************************************************************************)
DigitVal(c) == CHOOSE n \in 0..9 : <<"0", "1", "2", "3", "4", "5", "6", "7", "8", "9">>[n + 1] = c

DigitChar(n) == <<"0", "1", "2", "3", "4", "5", "6", "7", "8", "9">>[n + 1]

\* str(int(digits)): the digits without leading zeros
RECURSIVE StripZeros(_)
StripZeros(d) ==
    IF Len(d) > 1 /\ Head(d) = "0" THEN StripZeros(Tail(d)) ELSE d

Zeros(n) == [i \in 1..n |-> "0"]

\* digits + 1
RECURSIVE Increment(_)
Increment(d) ==
    IF d = <<>> THEN <<"1">>
    ELSE IF d[Len(d)] = "9" THEN Increment(SubSeq(d, 1, Len(d) - 1)) \o <<"0">>
    ELSE SubSeq(d, 1, Len(d) - 1) \o <<DigitChar(DigitVal(d[Len(d)]) + 1)>>

\* a < b for two numbers written without leading zeros
RECURSIVE DigitsLess(_, _)
DigitsLess(a, b) ==
    IF Len(a) # Len(b) THEN Len(a) < Len(b)
    ELSE IF a = <<>> THEN FALSE
    ELSE IF Head(a) # Head(b) THEN DigitVal(Head(a)) < DigitVal(Head(b))
    ELSE DigitsLess(Tail(a), Tail(b))

CountChar(s, c) == Cardinality({i \in 1..Len(s) : s[i] = c})

\* whether Decimal(s) accepts s: digits with at most one decimal point
\* (the strings that reach it hold digits and points only)
DecimalAccepts(s) ==
    /\ \A i \in 1..Len(s) : IsDigit(s[i]) \/ s[i] = "."
    /\ \E i \in 1..Len(s) : IsDigit(s[i])
    /\ CountChar(s, ".") <= 1

\* Decimal(s) for a string Decimal accepts: _int = str(int(intpart+fracpart)),
\* _exp = -len(fracpart)
FractionLength(s) ==
    IF CountChar(s, ".") = 0 THEN 0
    ELSE Len(s) - (CHOOSE i \in 1..Len(s) : s[i] = ".")

DecimalOfString(s) ==
    [int |-> StripZeros(RemoveChar(s, ".")), exp |-> 0 - FractionLength(s)]

\* Decimal(n) for a non-negative int given by its digits
DecimalOfInt(d) == [int |-> StripZeros(d), exp |-> 0]

\* the digits of a natural number: str(n)
RECURSIVE NatDigits(_)
NatDigits(n) ==
    IF n < 10 THEN <<DigitChar(n)>>
    ELSE NatDigits(n \div 10) \o <<DigitChar(n % 10)>>

\* Decimal.__str__: plain notation while the exponent is <= 0 and more than
\* -6 places lie left of the first digit, scientific notation otherwise
StrIntPart(int, dotplace) ==
    IF dotplace <= 0 THEN <<"0">>
    ELSE IF dotplace >= Len(int) THEN int \o Zeros(dotplace - Len(int))
    ELSE SubSeq(int, 1, dotplace)

StrFracPart(int, dotplace) ==
    IF dotplace <= 0 THEN <<".">> \o Zeros(0 - dotplace) \o int
    ELSE IF dotplace >= Len(int) THEN <<>>
    ELSE <<".">> \o SubSeq(int, dotplace + 1, Len(int))

StrExpPart(e) ==
    IF e = 0 THEN <<>>
    ELSE IF e < 0 THEN <<"E", "-">> \o NatDigits(0 - e)
    ELSE <<"E", "+">> \o NatDigits(e)

StrWithDot(int, leftdigits, dotplace) ==
    StrIntPart(int, dotplace) \o StrFracPart(int, dotplace)
        \o StrExpPart(leftdigits - dotplace)

StrFrom(d, leftdigits) ==
    StrWithDot(d.int, leftdigits,
               IF d.exp <= 0 /\ leftdigits > -6 THEN leftdigits ELSE 1)

DecimalStr(d) == StrFrom(d, d.exp + Len(d.int))

\* the digits of d before the decimal point and those after it
WholeDigits(d) ==
    IF Len(d.int) + d.exp <= 0 THEN <<"0">>
    ELSE SubSeq(d.int, 1, Len(d.int) + d.exp)

FractionDigits(d) ==
    IF Len(d.int) + d.exp <= 0 THEN d.int
    ELSE SubSeq(d.int, Len(d.int) + d.exp + 1, Len(d.int))

GreaterThan(whole, frac, n) ==
    \/ DigitsLess(n, whole)
    \/ whole = n /\ \E i \in 1..Len(frac) : frac[i] # "0"

\* base > 100000000 (a Decimal compared with an int)
ExceedsCeiling(d) == GreaterThan(WholeDigits(d), FractionDigits(d), <<"1", "0", "0", "0", "0", "0", "0", "0", "0">>)

\* the digits padded with zeros on the left to more than `drop` digits
PadLeft(int, drop) ==
    IF Len(int) <= drop THEN Zeros(drop + 1 - Len(int)) \o int ELSE int

\* the number whose digits are `padded`, without its last `drop` digits,
\* rounded half up
RoundDropped(padded, drop) ==
    IF DigitVal(padded[Len(padded) - drop + 1]) >= 5
    THEN StripZeros(Increment(SubSeq(padded, 1, Len(padded) - drop)))
    ELSE StripZeros(SubSeq(padded, 1, Len(padded) - drop))

\* int(d.to_integral_value(rounding='ROUND_HALF_UP')), as digits
ToIntegralHalfUp(d) ==
    IF d.exp >= 0 THEN d.int \o Zeros(d.exp)
    ELSE RoundDropped(PadLeft(d.int, 0 - d.exp), 0 - d.exp)

(***************************************************************************)
(* parse_amount_string                                                     *)
(***************************************************************************)
\* re.sub(r'[^\d\.]', '', s)
RECURSIVE KeepDigitsAndPoints(_)
KeepDigitsAndPoints(s) ==
    IF s = <<>> THEN <<>>
    ELSE IF IsDigit(Head(s)) \/ Head(s) = "."
         THEN <<Head(s)>> \o KeepDigitsAndPoints(Tail(s))
         ELSE KeepDigitsAndPoints(Tail(s))

\* the try/except of parse_amount_string: the first Decimal() is guarded, the
\* fallback Decimal() is not, so a string the fallback cannot repair raises
\* x or '0'
OrZero(x) == IF x = <<>> THEN <<"0">> ELSE x

ParseFallback(fallback) ==
    IF DecimalAccepts(fallback)
    THEN [raised |-> FALSE, base |-> DecimalOfString(fallback)]
    ELSE [raised |-> TRUE, base |-> NoDecimal]

ParseClean(num_clean) ==
    IF DecimalAccepts(num_clean)
    THEN [raised |-> FALSE, base |-> DecimalOfString(num_clean)]
    ELSE ParseFallback(OrZero(KeepDigitsAndPoints(num_clean)))

ParseBase(num_str) ==
    ParseClean(Strip(RemoveChar(RemoveChar(num_str, ","), " ")))

LakhWords == {<<"l", "a", "k", "h">>, <<"l", "a", "c">>, <<"l", "a", "c", "s">>, <<"l", "a", "k", "s">>, <<"l", "a", "k", "h", "s">>}

CroreWords == {<<"c", "r", "o", "r", "e">>, <<"c", "r">>, <<"c", "r", ".">>, <<"c", "r", "o", "r", "s">>, <<"c", "r", "o", "r", "e", "s">>}

ThousandWords == {<<"k">>, <<"t", "h", "o", "u", "s", "a", "n", "d">>, <<"k", ".">>, <<"t", "h", "o", "u">>}

MillionWords == {<<"m", "i", "l", "l", "i", "o", "n">>, <<"m">>, <<"m", "n">>, <<"m", ".">>, <<"m", "i", "l", "l", "i", "o", "n", "s">>}

BillionWords == {<<"b", "i", "l", "l", "i", "o", "n">>, <<"b", "n">>, <<"b">>}

EndsWith(m, c) == m # <<>> /\ m[Len(m)] = c

One == [int |-> <<"1">>, exp |-> 0]

\* the magnitude rules of parse_amount_string, first match wins
MagnitudeOf(m) ==
        IF SearchBounded(LakhWords, m) \/ m \in {<<"l">>, <<"l", "k">>}
        THEN [mult |-> [int |-> <<"1", "0", "0", "0", "0", "0">>, exp |-> 0], unit |-> <<"l", "a", "k", "h">>]
        ELSE IF SearchBounded(CroreWords, m)
        THEN [mult |-> [int |-> <<"1", "0", "0", "0", "0", "0", "0", "0">>, exp |-> 0], unit |-> <<"c", "r", "o", "r", "e">>]
        ELSE IF SearchBounded(ThousandWords, m)
        THEN [mult |-> [int |-> <<"1", "0", "0", "0">>, exp |-> 0], unit |-> <<"t", "h", "o", "u", "s", "a", "n", "d">>]
        ELSE IF SearchBounded(MillionWords, m)
        THEN [mult |-> [int |-> <<"1", "0", "0", "0", "0", "0", "0">>, exp |-> 0], unit |-> <<"m", "i", "l", "l", "i", "o", "n">>]
        ELSE IF SearchBounded(BillionWords, m)
        THEN [mult |-> [int |-> <<"1", "0", "0", "0", "0", "0", "0", "0", "0", "0">>, exp |-> 0], unit |-> <<"b", "i", "l", "l", "i", "o", "n">>]
        ELSE IF EndsWith(m, "k")
        THEN [mult |-> [int |-> <<"1", "0", "0", "0">>, exp |-> 0], unit |-> <<"t", "h", "o", "u", "s", "a", "n", "d">>]
        ELSE IF EndsWith(m, "m")
        THEN [mult |-> [int |-> <<"1", "0", "0", "0", "0", "0", "0">>, exp |-> 0], unit |-> <<"m", "i", "l", "l", "i", "o", "n">>]
        ELSE IF EndsWith(m, "l")
        THEN [mult |-> [int |-> <<"1", "0", "0", "0", "0", "0">>, exp |-> 0], unit |-> <<"l", "a", "k", "h">>]
        ELSE [mult |-> One, unit |-> None]

ResolveMagnitude(multiplier_str) ==
    IF multiplier_str = <<>> THEN [mult |-> One, unit |-> None]
    ELSE MagnitudeOf(Strip(Lower(multiplier_str)))

ParseResult(b, r) ==
    [raised |-> b.raised, base |-> b.base, mult |-> r.mult, unit |-> r.unit]

parse_amount_string(num_str, multiplier_str) ==
    ParseResult(ParseBase(num_str), ResolveMagnitude(multiplier_str))

\* the precision of the decimal module's default context, which the
\* arithmetic of base * mult rounds its result to
prec == 28

\* ROUND_HALF_EVEN, the default context's rounding: whether the digits
\* `dropped` after the digits `kept` round these up
RoundsUp(kept, dropped) ==
    \/ DigitVal(Head(dropped)) > 5
    \/ /\ DigitVal(Head(dropped)) = 5
       /\ \/ \E i \in 2..Len(dropped) : dropped[i] # "0"
          \/ DigitVal(kept[Len(kept)]) % 2 = 1

\* a rounded coefficient that the carry made one digit too long loses its
\* last digit
Shorten(int, exp) ==
    IF Len(int) > prec THEN [int |-> SubSeq(int, 1, prec), exp |-> exp + 1]
    ELSE [int |-> int, exp |-> exp]

RoundTo(kept, dropped, exp) ==
    Shorten(IF RoundsUp(kept, dropped) THEN Increment(kept) ELSE kept, exp)

\* the exact result d rounded to the context's precision
Fix(d) ==
    IF Len(d.int) <= prec THEN d
    ELSE RoundTo(SubSeq(d.int, 1, prec), SubSeq(d.int, prec + 1, Len(d.int)),
                 d.exp + Len(d.int) - prec)

\* base * mult, mult a power of ten
Times(base, mult) ==
    Fix([int |-> StripZeros(base.int \o Tail(mult.int)), exp |-> base.exp + mult.exp])

\* unit or (str(int(mult)) if mult != 1 else '1')
UnitMultiplier(unit, mult) ==
    IF unit # None THEN unit
    ELSE IF mult # One THEN mult.int
    ELSE <<"1">>

(***************************************************************************)
(* word_to_number: w2n.word_to_num of the word2number package, which the   *)
(* module imports, on phrases without the word "point" (its float results  *)
(* are outside the inputs drawn here)                                      *)
(***************************************************************************)
american_number_system ==
    << <<<<"z", "e", "r", "o">>, 0>>, <<<<"o", "n", "e">>, 1>>, <<<<"t", "w", "o">>, 2>>, <<<<"t", "h", "r", "e", "e">>, 3>>,
       <<<<"f", "o", "u", "r">>, 4>>, <<<<"f", "i", "v", "e">>, 5>>, <<<<"s", "i", "x">>, 6>>, <<<<"s", "e", "v", "e", "n">>, 7>>,
       <<<<"e", "i", "g", "h", "t">>, 8>>, <<<<"n", "i", "n", "e">>, 9>>, <<<<"t", "e", "n">>, 10>>, <<<<"e", "l", "e", "v", "e", "n">>, 11>>,
       <<<<"t", "w", "e", "l", "v", "e">>, 12>>, <<<<"t", "h", "i", "r", "t", "e", "e", "n">>, 13>>, <<<<"f", "o", "u", "r", "t", "e", "e", "n">>, 14>>,
       <<<<"f", "i", "f", "t", "e", "e", "n">>, 15>>, <<<<"s", "i", "x", "t", "e", "e", "n">>, 16>>, <<<<"s", "e", "v", "e", "n", "t", "e", "e", "n">>, 17>>,
       <<<<"e", "i", "g", "h", "t", "e", "e", "n">>, 18>>, <<<<"n", "i", "n", "e", "t", "e", "e", "n">>, 19>>, <<<<"t", "w", "e", "n", "t", "y">>, 20>>,
       <<<<"t", "h", "i", "r", "t", "y">>, 30>>, <<<<"f", "o", "r", "t", "y">>, 40>>, <<<<"f", "i", "f", "t", "y">>, 50>>,
       <<<<"s", "i", "x", "t", "y">>, 60>>, <<<<"s", "e", "v", "e", "n", "t", "y">>, 70>>, <<<<"e", "i", "g", "h", "t", "y">>, 80>>,
       <<<<"n", "i", "n", "e", "t", "y">>, 90>>, <<<<"h", "u", "n", "d", "r", "e", "d">>, 100>>, <<<<"t", "h", "o", "u", "s", "a", "n", "d">>, 1000>>,
       <<<<"m", "i", "l", "l", "i", "o", "n">>, 1000000>>, <<<<"b", "i", "l", "l", "i", "o", "n">>, 1000000000>> >>

NumberWords == {american_number_system[i][1] : i \in DOMAIN american_number_system}

NumberOf(w) ==
    american_number_system[CHOOSE j \in DOMAIN american_number_system :
                               american_number_system[j][1] = w][2]

\* str.split(): the maximal runs of non-whitespace characters
RECURSIVE SplitFrom(_, _, _)
SplitFrom(s, i, cur) ==
    IF i > Len(s) THEN (IF cur = <<>> THEN <<>> ELSE <<cur>>)
    ELSE IF IsSpace(s[i])
         THEN (IF cur = <<>> THEN <<>> ELSE <<cur>>) \o SplitFrom(s, i + 1, <<>>)
         ELSE SplitFrom(s, i + 1, Append(cur, s[i]))

Split(s) == SplitFrom(s, 1, <<>>)

IsNumberWord(w) == w \in NumberWords

\* list.index(w) if w in list else -1 (0-based)
IndexOf(ws, w) ==
    IF \E i \in 1..Len(ws) : ws[i] = w
    THEN (CHOOSE i \in 1..Len(ws) : ws[i] = w /\ \A j \in 1..(i - 1) : ws[j] # w) - 1
    ELSE -1

CountWord(ws, w) == Cardinality({i \in 1..Len(ws) : ws[i] = w})

\* w2n.number_formation on the numbers of the words; -1 stands for the
\* IndexError of an empty list
FormNumber(n) ==
    IF Len(n) = 0 THEN -1
    ELSE IF Len(n) = 4 THEN n[1] * n[2] + n[3] + n[4]
    ELSE IF Len(n) = 3 THEN n[1] * n[2] + n[3]
    ELSE IF Len(n) = 2 THEN (IF 100 \in {n[1], n[2]} THEN n[1] * n[2] ELSE n[1] + n[2])
    ELSE n[1]

number_formation(ws) == FormNumber([i \in 1..Len(ws) |-> NumberOf(ws[i])])

\* clean_numbers[a:b] (0-based, half-open)
WordSlice(ws, a, b) == SubSeq(ws, a + 1, b)

Failed == [ok |-> FALSE, digits |-> <<>>]

\* the multipliers of billion, million and thousand (0 when the word is
\* absent) and the rest of the number
BillionPart(clean, bi) ==
    IF bi > -1 THEN number_formation(WordSlice(clean, 0, bi)) ELSE 0

MillionPart(clean, bi, mi) ==
    IF mi = -1 THEN 0
    ELSE IF bi > -1 THEN number_formation(WordSlice(clean, bi + 1, mi))
    ELSE number_formation(WordSlice(clean, 0, mi))

ThousandPart(clean, bi, mi, ti) ==
    IF ti = -1 THEN 0
    ELSE IF mi > -1 THEN number_formation(WordSlice(clean, mi + 1, ti))
    ELSE IF bi > -1 THEN number_formation(WordSlice(clean, bi + 1, ti))
    ELSE number_formation(WordSlice(clean, 0, ti))

HundredsPart(clean, bi, mi, ti) ==
    IF ti > -1 /\ ti # Len(clean) - 1
    THEN number_formation(WordSlice(clean, ti + 1, Len(clean)))
    ELSE IF mi > -1 /\ mi # Len(clean) - 1
    THEN number_formation(WordSlice(clean, mi + 1, Len(clean)))
    ELSE IF bi > -1 /\ bi # Len(clean) - 1
    THEN number_formation(WordSlice(clean, bi + 1, Len(clean)))
    ELSE IF ti = -1 /\ mi = -1 /\ bi = -1 THEN number_formation(clean)
    ELSE 0

TotalSum(bm, mm, tm, hundreds) ==
    IF bm = -1 \/ mm = -1 \/ tm = -1 \/ hundreds = -1 THEN Failed
    ELSE [ok |-> TRUE,
          digits |-> NatDigits(bm * 1000000000 + mm * 1000000 + tm * 1000 + hundreds)]

\* word_to_num once the sentence is split and cleaned and the three words
\* are located
SumOfWords(clean, bi, mi, ti) ==
    IF Len(clean) = 0 THEN Failed
    ELSE IF \/ CountWord(clean, <<"t", "h", "o", "u", "s", "a", "n", "d">>) > 1
            \/ CountWord(clean, <<"m", "i", "l", "l", "i", "o", "n">>) > 1
            \/ CountWord(clean, <<"b", "i", "l", "l", "i", "o", "n">>) > 1
    THEN Failed
    ELSE IF \/ (ti > -1 /\ (ti < mi \/ ti < bi))
            \/ (mi > -1 /\ mi < bi)
    THEN Failed
    ELSE IF Len(clean) = 1 THEN [ok |-> TRUE, digits |-> NatDigits(NumberOf(clean[1]))]
    ELSE TotalSum(BillionPart(clean, bi), MillionPart(clean, bi, mi),
                  ThousandPart(clean, bi, mi, ti), HundredsPart(clean, bi, mi, ti))

CleanNumbers(clean) ==
    SumOfWords(clean, IndexOf(clean, <<"b", "i", "l", "l", "i", "o", "n">>), IndexOf(clean, <<"m", "i", "l", "l", "i", "o", "n">>),
               IndexOf(clean, <<"t", "h", "o", "u", "s", "a", "n", "d">>))

\* w2n.word_to_num on a lower-cased sentence: [ok, digits]; ok = FALSE is a
\* raised exception
word_to_num(sentence) ==
    IF sentence # <<>> /\ \A i \in 1..Len(sentence) : IsDigit(sentence[i])
    THEN [ok |-> TRUE, digits |-> StripZeros(sentence)]
    ELSE CleanNumbers(SelectSeq(Split(Strip(sentence)), IsNumberWord))

ToDecimal(r) == IF r.ok THEN DecimalOfInt(r.digits) ELSE NoDecimal

\* word_to_number: Decimal(w2n.word_to_num(text.lower())), None on any exception
word_to_number(words) == ToDecimal(word_to_num(Lower(words)))

(***************************************************************************)
(* pattern: the numeric scanner's regular expression.  Each operator gives *)
(* what the backtracking matcher of the re module settles on.              *)
(***************************************************************************)
\* ₹|rs\.?|inr|usd|\$ in the order the regex tries them (rs\.? is greedy:
\* with the period first)
CurrencyAlts == <<<<"₹">>, <<"r", "s", ".">>, <<"r", "s">>, <<"i", "n", "r">>, <<"u", "s", "d">>, <<"$">>>>

\* (?:crore|cr\.?|cr|lakh|lac|lacs|l|k|k\.|thousand|million|m|mn|bn|b) in
\* the order the regex tries them
SuffixAlts ==
    <<<<"c", "r", "o", "r", "e">>, <<"c", "r", ".">>, <<"c", "r">>, <<"c", "r">>, <<"l", "a", "k", "h">>, <<"l", "a", "c">>, <<"l", "a", "c", "s">>, <<"l">>, <<"k">>,
      <<"k", ".">>, <<"t", "h", "o", "u", "s", "a", "n", "d">>, <<"m", "i", "l", "l", "i", "o", "n">>, <<"m">>, <<"m", "n">>, <<"b", "n">>, <<"b">>>>

\* the offset where the maximal run of [\d,\.] that starts at offset i ends
RECURSIVE NumberRunEnd(_, _)
NumberRunEnd(t, i) ==
    IF i < Len(t) /\ (IsDigit(t[i + 1]) \/ t[i + 1] \in {",", "."})
    THEN NumberRunEnd(t, i + 1) ELSE i

\* the offset after the last digit of t[i:e], which starts with a digit
LastDigitEnd(t, i, e) ==
    CHOOSE j \in (i + 1)..e :
        IsDigit(t[j]) /\ \A k \in (j + 1)..e : ~IsDigit(t[k])

\* (?P<number>\d[\d,\.]*\d|\d+) at offset i, a digit: the greedy run is given
\* back to its last digit; the offset where the number ends
NumberEnd(t, i) == LastDigitEnd(t, i, NumberRunEnd(t, i))

IsDigitAt(t, j) == j < Len(t) /\ IsDigit(t[j + 1])

\* \s*\d matches at offset i
DigitAfterSpaces(t, i) == IsDigitAt(t, SkipSpaces(t, i))

\* (?P<prefix_currency>...)? at offset s: the offset where the marker ends,
\* the first alternative from the k-th on that lets \s*\d follow; s when
\* there is none
RECURSIVE CurrencyEndFrom(_, _, _)
CurrencyEndFrom(t, s, k) ==
    IF k > Len(CurrencyAlts) THEN s
    ELSE IF /\ StartsWithAtIgnoreCase(t, s, CurrencyAlts[k])
            /\ DigitAfterSpaces(t, s + Len(CurrencyAlts[k]))
    THEN s + Len(CurrencyAlts[k])
    ELSE CurrencyEndFrom(t, s, k + 1)

CurrencyEnd(t, s) == CurrencyEndFrom(t, s, 1)

\* the offset where the first alternative of the suffix, from the k-th on,
\* ends at offset i; i when none matches
RECURSIVE SuffixStemEndFrom(_, _, _)
SuffixStemEndFrom(t, i, k) ==
    IF k > Len(SuffixAlts) THEN i
    ELSE IF StartsWithAtIgnoreCase(t, i, SuffixAlts[k]) THEN i + Len(SuffixAlts[k])
    ELSE SuffixStemEndFrom(t, i, k + 1)

\* c? at offset i
OptionalChar(t, i, c) ==
    IF i < Len(t) /\ IgnoreCaseChar(t[i + 1]) = c THEN i + 1 ELSE i

\* s?\.? after a suffix alternative that ends at offset e (nothing when no
\* alternative matched at i)
SuffixTail(t, i, e) ==
    IF e = i THEN i ELSE OptionalChar(t, OptionalChar(t, e, "s"), ".")

\* (?P<suffix>(?:...)s?\.?)? at offset i: the offset where it ends
SuffixEnd(t, i) == SuffixTail(t, i, SuffixStemEndFrom(t, i, 1))

NoMatch == [matched |-> FALSE]

\* the match object of the first branch
MatchA(t, s, curEnd, numStart, numEnd, sufStart, sufEnd) ==
    [matched |-> TRUE, start |-> s, end |-> sufEnd,
     prefix_currency |-> IF curEnd = s THEN None ELSE Slice(t, s, curEnd),
     number |-> Slice(t, numStart, numEnd),
     suffix |-> IF sufEnd = sufStart THEN None ELSE Slice(t, sufStart, sufEnd),
     prefix_currency2 |-> None, number2 |-> None]

\* the first branch from its pieces on: \s* and the suffix after the number
BranchASuffix(t, s, curEnd, numStart, numEnd, sufStart) ==
    MatchA(t, s, curEnd, numStart, numEnd, sufStart, SuffixEnd(t, sufStart))

BranchANumber(t, s, curEnd, numStart) ==
    BranchASuffix(t, s, curEnd, numStart, NumberEnd(t, numStart),
                  SkipSpaces(t, NumberEnd(t, numStart)))

BranchACurrency(t, s, curEnd) ==
    IF DigitAfterSpaces(t, curEnd)
    THEN BranchANumber(t, s, curEnd, SkipSpaces(t, curEnd))
    ELSE NoMatch

\* the first branch of pattern at offset s
BranchA(t, s) == BranchACurrency(t, s, CurrencyEnd(t, s))

\* the match object of the second branch
MatchB(t, s, curEnd, numStart) ==
    [matched |-> TRUE, start |-> s, end |-> NumberEnd(t, numStart),
     prefix_currency |-> None, number |-> None, suffix |-> None,
     prefix_currency2 |-> Slice(t, s, curEnd),
     number2 |-> Slice(t, numStart, NumberEnd(t, numStart))]

BranchBCurrency(t, s, curEnd) ==
    IF curEnd # s THEN MatchB(t, s, curEnd, SkipSpaces(t, curEnd)) ELSE NoMatch

\* the second branch of pattern at offset s: the marker is mandatory
BranchB(t, s) == BranchBCurrency(t, s, CurrencyEnd(t, s))

\* the first branch, or else the second
OrBranchB(a, t, s) == IF a.matched THEN a ELSE BranchB(t, s)

PatternAt(t, s) == OrBranchB(BranchA(t, s), t, s)

\* a finditer that would look for the next match one character after the
\* start of the last one, so that matches may overlap
ResumeAfterStart(m) == m.start + 1

\* where finditer resumes after a match
ResumeAt(m) == m.end

\* one step of pattern.finditer(text): the leftmost match at or after offset p
RECURSIVE PatternNext(_, _)
OrFurther(m, t, p) == IF m.matched THEN m ELSE PatternNext(t, p + 1)

PatternNext(t, p) ==
    IF p >= Len(t) THEN NoMatch ELSE OrFurther(PatternAt(t, p), t, p)

(***************************************************************************)
(* word_pattern: the worded scanner's regular expression                   *)
(***************************************************************************)
\* (lakh|lac|lacs|crore|cr|million|m) in the order the regex tries them
WordSuffixAlts == <<<<"l", "a", "k", "h">>, <<"l", "a", "c">>, <<"l", "a", "c", "s">>, <<"c", "r", "o", "r", "e">>, <<"c", "r">>, <<"m", "i", "l", "l", "i", "o", "n">>, <<"m">>>>

\* the offset where a greedy \w+ that starts at offset i ends
RECURSIVE WordRunEnd(_, _)
WordRunEnd(t, i) ==
    IF i < Len(t) /\ IsWord(t[i + 1]) THEN WordRunEnd(t, i + 1) ELSE i

\* \s? at offset i
OptionalSpace(t, i) == IF i < Len(t) /\ IsSpace(t[i + 1]) THEN i + 1 ELSE i

\* (?:\w+\s?)+ from offset i, a word character, taken greedily: the offset
\* where the last iteration ends
RECURSIVE WordsEnd(_, _)
WordsRepeat(t, e) == IF e < Len(t) /\ IsWord(t[e + 1]) THEN WordsEnd(t, e) ELSE e

WordsEnd(t, i) == WordsRepeat(t, OptionalSpace(t, WordRunEnd(t, i)))

\* (lakh|...|m)?\b at offset f: the offset where the first alternative, from
\* the k-th on, that ends at a word boundary ends; f when there is none
RECURSIVE WordSuffixEndFrom(_, _, _)
WordSuffixEndFrom(t, f, k) ==
    IF k > Len(WordSuffixAlts) THEN f
    ELSE IF /\ StartsWithAtIgnoreCase(t, f, WordSuffixAlts[k])
            /\ WordBoundary(t, f + Len(WordSuffixAlts[k]))
    THEN f + Len(WordSuffixAlts[k])
    ELSE WordSuffixEndFrom(t, f, k + 1)

WordMatch(t, s, e, end, suffix) ==
    [matched |-> TRUE, start |-> s, end |-> end,
     words |-> Slice(t, s, e), suffix |-> suffix]

\* the greedy group 1 ends at offset e, after one whitespace character; \s*
\* takes the whitespace up to offset f, and sufEnd is where a suffix that
\* starts at f ends.  With a suffix, or with a word boundary at f, the match
\* is found; otherwise the group gives its whitespace back and the match
\* ends at the word before it.
WordsThenSpace(t, s, e, f, sufEnd) ==
    IF sufEnd # f THEN WordMatch(t, s, e, sufEnd, Slice(t, f, sufEnd))
    ELSE IF WordBoundary(t, f) THEN WordMatch(t, s, e, f, None)
    ELSE WordMatch(t, s, e - 1, e - 1, None)

\* the greedy group 1 ends at offset e: after a word character the rest of
\* the pattern matches empty
WordsThen(t, s, e) ==
    IF IsWord(t[e]) THEN WordMatch(t, s, e, e, None)
    ELSE WordsThenSpace(t, s, e, SkipSpaces(t, e),
                        WordSuffixEndFrom(t, SkipSpaces(t, e), 1))

\* word_pattern at offset s
WordPatternAt(t, s) ==
    IF s < Len(t) /\ IsWord(t[s + 1]) /\ WordBoundary(t, s)
    THEN WordsThen(t, s, WordsEnd(t, s))
    ELSE NoMatch

\* one step of word_pattern.finditer(text)
RECURSIVE WordPatternNext(_, _)
OrFurtherWords(wm, t, p) == IF wm.matched THEN wm ELSE WordPatternNext(t, p + 1)

WordPatternNext(t, p) ==
    IF p >= Len(t) THEN NoMatch ELSE OrFurtherWords(WordPatternAt(t, p), t, p)

(***************************************************************************)
(* extract_amounts                                                         *)
(***************************************************************************)
\* a keyword list that would also hold "need"
transaction_keywords_and_need ==
    {<<"l", "i", "m", "i", "t">>, <<"t", "r", "a", "n", "s", "a", "c", "t", "i", "o", "n">>, <<"a", "m", "o", "u", "n", "t">>, <<"t", "r", "a", "n", "s", "f", "e", "r">>, <<"a", "l", "l", "o", "w">>, <<"a", "p", "p", "r", "o", "v", "e">>,
     <<"u", "p", "t", "o">>, <<"i", "n", "c", "r", "e", "a", "s", "e">>, <<"s", "e", "t", " ", "l", "i", "m", "i", "t">>, <<"r", "e", "q", "u", "e", "s", "t", "i", "n", "g">>, <<"n", "e", "e", "d">>}

transaction_keywords ==
    {<<"l", "i", "m", "i", "t">>, <<"t", "r", "a", "n", "s", "a", "c", "t", "i", "o", "n">>, <<"a", "m", "o", "u", "n", "t">>, <<"t", "r", "a", "n", "s", "f", "e", "r">>, <<"a", "l", "l", "o", "w">>, <<"a", "p", "p", "r", "o", "v", "e">>,
     <<"u", "p", "t", "o">>, <<"i", "n", "c", "r", "e", "a", "s", "e">>, <<"s", "e", "t", " ", "l", "i", "m", "i", "t">>, <<"r", "e", "q", "u", "e", "s", "t", "i", "n", "g">>}

\* a gate that would let every text through
KeywordAlwaysFound(t) == TRUE

\* re.search(transaction_keywords, text, re.IGNORECASE)
KeywordFound(t) == SearchBounded(transaction_keywords, IgnoreCase(t))

\* x or ''
OrEmpty(x) == IF x = None THEN <<>> ELSE x

\* x or None
OrNone(x) == IF x = <<>> THEN None ELSE x

\* the currency code for a captured marker, c being the marker lower-cased,
\* without periods and stripped
CurrencyCode(currency, c) ==
    IF c \in {<<"$">>, <<"u", "s", "d">>} THEN <<"U", "S", "D">>
    ELSE IF c \in {<<"₹">>, <<"r", "s">>, <<"i", "n", "r">>} THEN <<"I", "N", "R">>
    ELSE IF Strip(currency) = <<>> THEN <<"u", "n", "k", "n", "o", "w", "n">>
    ELSE Strip(currency)

\* cur or 'unknown' for the marker a match captured ('' when none)
CanonicalCurrency(currency) ==
    IF currency = <<>> THEN <<"u", "n", "k", "n", "o", "w", "n">>
    ELSE CurrencyCode(currency, Strip(RemoveChar(Lower(currency), ".")))

\* the three strings the numeric loop reads from a match
NumStr(m) == IF m.number # None /\ m.number # <<>> THEN m.number ELSE OrEmpty(m.number2)

SuffixOf(m) == IF m.number # None /\ m.number # <<>> THEN OrEmpty(m.suffix) ELSE <<>>

CurrencyOf(m) ==
    IF m.number # None /\ m.number # <<>> THEN OrEmpty(m.prefix_currency)
    ELSE OrEmpty(m.prefix_currency2)

\* the dict the numeric loop appends
NumericMention(t, m, p) ==
    [text |-> Slice(t, m.start, m.end),
     start |-> m.start,
     end |-> m.end,
     currency |-> CanonicalCurrency(CurrencyOf(m)),
     value |-> ToIntegralHalfUp(Times(p.base, p.mult)),
     unit_multiplier |-> UnitMultiplier(p.unit, p.mult),
     raw_number |-> DecimalStr(p.base),
     suffix |-> OrNone(SuffixOf(m))]

\* the dict the worded loop appends
WordedMention(t, wm, p) ==
    [text |-> Slice(t, wm.start, wm.end),
     start |-> wm.start,
     end |-> wm.end,
     currency |-> <<"I", "N", "R">>,
     value |-> ToIntegralHalfUp(Times(p.base, p.mult)),
     unit_multiplier |-> UnitMultiplier(p.unit, p.mult),
     raw_number |-> DecimalStr(p.base),
     suffix |-> OrNone(OrEmpty(wm.suffix))]

(***************************************************************************)
(* The texts extract_amounts is run on                                     *)
(***************************************************************************)
\* the sample emails of the module's demonstration block
emails ==
    {<<"m", "y", " ", "i", "n", "t", "e", "r", "n", "e", "t", " ", "b", "a", "n", "k", "i", "n", "g", " ", "c", "u", "r", "r", "e", "n", "t", " ", "l", "i", "m", "i", "t", " ", "i", "s", " ", "1", "0", "0", "0", "0", "0", " ", "n", "o", "w", " ", "p", "l", "e", "a", "s", "e", " ", "i", "n", "c", "r", "e", "a", "s", "e", " ", "m", "y", " ", "t", "r", "a", "n", "s", "a", "c", "t", "i", "o", "n", " ", "l", "i", "m", "i", "t", " ", "u", "p", "t", "o", " ", "2", "0", ",", "0", "0", "0", "0", "0">>,
     <<"P", "l", "e", "a", "s", "e", " ", "s", "e", "t", " ", "l", "i", "m", "i", "t", " ", "t", "o", " ", "2", "0", "l", "a", "k", "h">>,
     <<"R", "e", "q", "u", "e", "s", "t", "i", "n", "g", " ", "1", "0", " ", "l", "a", "c", "s", " ", "f", "o", "r", " ", "t", "r", "a", "n", "s", "f", "e", "r">>,
     <<"K", "i", "n", "d", "l", "y", " ", "a", "l", "l", "o", "w", " ", "R", "s", ".", " ", "5", ",", "0", "0", ",", "0", "0", "0">>,
     <<"N", "e", "e", "d", " ", "₹", "2", ".", "5", " ", "c", "r", "o", "r", "e", " ", "A", "S", "A", "P">>,
     <<"N", "e", "e", "d", " ", "₹", "2", ".", "5", " ", "c", "r", " ", "A", "S", "A", "P">>,
     <<"i", "n", "c", "r", "e", "a", "s", "e", " ", "m", "y", " ", "l", "i", "m", "i", "t", " ", "t", "o", " ", "2", "L">>,
     <<"h", "i", " ", "m", "y", " ", "i", "n", "t", "e", "r", "n", "t", " ", "b", "n", "a", "k", "i", "n", "g", " ", "l", "i", "m", "i", "t", " ", "i", "s", " ", "3", "9", ",", "0", "0", "0", "0", " ", "a", "n", "d", " ", "i", " ", "w", "a", "n", "t", " ", "t", "o", " ", "i", "n", "c", "r", "e", "a", "s", "e", " ", "i", "t", " ", "t", "o", " ", "1", "2", "3", "4", "5", "6", "7", "8", " ", ",", "k", "i", "n", "d", "l", "y", " ", "i", "n", "c", "r", "e", "a", "s", "e", " ", "i", "t", " ", "a", "s", " ", "s", "o", "o", "n", " ", "a", "s", " ", "p", "o", "s", "s", "i", "b", "l", "e", " ", "m", "y", " ", "c", "i", "f", " ", "n", "o", " ", "i", "s", " ", "4", "0", "2", "4", "5", "6", "7", "8", "9", "0", " ", "a", "n", "d", " ", "a", "c", "c", "o", "u", "n", "t", " ", "n", "u", "m", "b", "e", "r", " ", "i", "s", " ", "2", "3", "4", "5", "6", "7", "8", "9", "0">>,
     <<"P", "l", "e", "a", "s", "e", " ", "a", "p", "p", "r", "o", "v", "e", " ", "$", "1", ".", "2", " ", "m", "i", "l", "l", "i", "o", "n", " ", "f", "o", "r", " ", "t", "h", "e", " ", "p", "u", "r", "c", "h", "a", "s", "e">>,
     <<"p", "l", "e", "a", "s", "e", " ", "i", "n", "c", "r", "e", "a", "s", "e", " ", "l", "i", "m", "i", "t", " ", "b", "y", " ", "5", " ", "l", "a", "k", "h", " ", "r", "s">>,
     <<"e", "n", "h", "a", "n", "c", "e", "m", "e", "n", "t", " ", "o", "f", " ", "l", "i", "m", "i", "t", " ", "t", "w", "o", " ", "l", "a", "k", "h", " ", "r", "u", "p", "e", "e", "s">>}

\* sentences around the examples the specification quotes, and a few more
\* that take the scanners through their branches
samples ==
    {<<"m", "y", " ", "a", "c", "c", "o", "u", "n", "t", " ", "n", "u", "m", "b", "e", "r", " ", "i", "s", " ", "2", "3", "4", "5", "6", "7", "8", "9", "0">>,
     <<"l", "i", "m", "i", "t", " ", "1", ".", "2", ".", "3">>,
     <<"t", "r", "a", "n", "s", "f", "e", "r", " ", "o", "n", " ", "1", "2", ".", "0", "5", ".", "2", "0", "2", "4">>,
     <<"t", "r", "a", "n", "s", "f", "e", "r", " ", "i", "n", " ", "5", " ", "m", "o", "n", "t", "h", "s">>,
     <<"a", "p", "p", "r", "o", "v", "e", " ", "2", " ", "l", "i", "n", "e", "s">>,
     <<"a", "l", "l", "o", "w", " ", "5", " ", "b", "u", "s", "i", "n", "e", "s", "s", " ", "d", "a", "y", "s">>,
     <<"l", "i", "m", "i", "t", " ", "5", " ", "t", "h", "o", "u", "s", "a", "n", "d", "s">>,
     <<"l", "i", "m", "i", "t", " ", "5", " ", "k", "s">>,
     <<"l", "i", "m", "i", "t", " ", "5", " ", "c", "r", "s">>,
     <<"l", "i", "m", "i", "t", " ", "5", " ", "b", "n", "s">>,
     <<"l", "i", "m", "i", "t", " ", "5", " ", "L", ".">>,
     <<"l", "i", "m", "i", "t", ":", " ", "4", "0", "2", "4", "5", "6", "7", "8", "9", "0">>,
     <<"u", "p", "t", "o", " ", "0", ".", "0", "0", "0", "0", "0", "0", "1">>,
     <<"u", "p", "t", "o", " ", "0", "0", "7", ".", "5", "0", " ", "c", "r">>,
     <<"a", "l", "l", "o", "w", " ", "t", "w", "o", ",", " ", "u", "p", "t", "o", " ", "5", " ", "o", "r", " ", "7">>,
     <<"i", "n", "c", "r", "e", "a", "s", "e", " ", "t", "o", " ", "t", "w", "o", " ", " ", "l", "a", "k", "h">>,
     <<"I", "N", "C", "R", "E", "A", "S", "E", " ", "t", "o", " ", "f", "i", "v", "e", " ", "h", "u", "n", "d", "r", "e", "d", " ", "t", "h", "o", "u", "s", "a", "n", "d">>,
     <<"a", "m", "o", "u", "n", "t", " ", "i", "n", "r", " ", "2", ",", "5", "0", ",", "0", "0", "0", ".", "5", "0", " ", "a", "n", "d", " ", "u", "s", "d", " ", "3", "k", ".">>,
     <<"u", "p", "t", "o", " ", "0", ".", "4", "9", "9", "9", "9", "9", "9", "9", "9", "9", "9", "9", "9", "9", "9", "9", "9", "9", "9", "9", "9", "9", "9", "9", "9", "9", "9", "9", "5">>,
     <<"u", "p", "t", "o", " ", "r", "long s", " ", "5", "0", "0">>,
     <<"t", "r", "a", "n", "long s", "f", "e", "r", " ", "5">>,
     <<"l", "dotless i", "m", "i", "t", " ", "u", "long s", "d", " ", "5", " ", "m", "dotless i", "l", "l", "i", "o", "n">>,
     <<"l", "i", "m", "i", "t", " ", "5", " ", "kelvin sign">>,
     <<"l", "i", "m", "i", "t", " ", "5", " ", "l", "a", "c", "long s">>}

\* how many fragments follow the opening of a composed text
MaxFrags == 2

\* openings with and without a transaction keyword
Leads == {<<"n", "e", "e", "d", " ">>, <<"u", "n", "l", "i", "m", "i", "t", "e", "d", " ">>, <<"u", "p", "t", "o", " ">>, <<"S", "e", "t", " ", "L", "i", "m", "i", "t", ":", " ">>}

Frags ==
    {<<" ">>, <<",">>, <<".">>, <<"2">>, <<".", "5">>, <<"1", "0", "0", "0", "0", "0", "0", "0", "0">>, <<"$">>, <<"R", "s", ".">>, <<"l", "a", "k", "h">>,
     <<"c", "r">>, <<"k">>, <<"m">>, <<"s">>, <<"t", "w", "o">>, <<"h", "u", "n", "d", "r", "e", "d">>, <<"o", "n", "t", "h", "s">>}

RECURSIVE Compositions(_)
Compositions(n) ==
    IF n = 0 THEN {<<>>}
    ELSE LET shorter == Compositions(n - 1)
         IN  shorter \cup {c \o f : c \in shorter, f \in Frags}

Inputs == emails \cup samples \cup {l \o c : l \in Leads, c \in Compositions(MaxFrags)}

(***************************************************************************)
(* The state machine: one call of extract_amounts(text).  pc is the place  *)
(* in the function, pos the offset where the running finditer resumes,     *)
(* results the list being built.  origin records, beside results, which    *)
(* loop appended each mention (the dicts themselves do not say).           *)
(***************************************************************************)
Init ==
    /\ text \in Inputs
    /\ pc = "gate"
    /\ pos = 0
    /\ results = <<>>
    /\ origin = <<>>

\* no keyword: return results
GateReject ==
    /\ pc = "gate"
    /\ ~KeywordFound(text)
    /\ pc' = "done"
    /\ UNCHANGED <<text, pos, results, origin>>

GatePass ==
    /\ pc = "gate"
    /\ KeywordFound(text)
    /\ pc' = "numeric"
    /\ UNCHANGED <<text, pos, results, origin>>

\* an iteration of the numeric loop in which parse_amount_string raises
NumericRaise ==
    /\ pc = "numeric"
    /\ \E m \in {PatternNext(text, pos)} :
           /\ m.matched
           /\ parse_amount_string(NumStr(m), SuffixOf(m)).raised
    /\ pc' = "raised"
    /\ UNCHANGED <<text, pos, results, origin>>

\* an iteration of the numeric loop that ends in `continue`
NumericSkip ==
    /\ pc = "numeric"
    /\ \E m \in {PatternNext(text, pos)} :
           /\ m.matched
           /\ \E p \in {parse_amount_string(NumStr(m), SuffixOf(m))} :
                  /\ ~p.raised
                  /\ ExceedsCeiling(p.base)
           /\ pos' = ResumeAt(m)
    /\ UNCHANGED <<text, pc, results, origin>>

\* an iteration of the numeric loop that appends a mention
NumericEmit ==
    /\ pc = "numeric"
    /\ \E m \in {PatternNext(text, pos)} :
           /\ m.matched
           /\ \E p \in {parse_amount_string(NumStr(m), SuffixOf(m))} :
                  /\ ~p.raised
                  /\ ~ExceedsCeiling(p.base)
                  /\ results' = Append(results, NumericMention(text, m, p))
           /\ origin' = Append(origin, "numeric")
           /\ pos' = ResumeAt(m)
    /\ UNCHANGED <<text, pc>>

\* pattern.finditer is exhausted: the worded loop starts
NumericEnd ==
    /\ pc = "numeric"
    /\ ~PatternNext(text, pos).matched
    /\ pc' = "worded"
    /\ pos' = 0
    /\ UNCHANGED <<text, results, origin>>

\* an iteration of the worded loop whose words are no number
WordedDiscard ==
    /\ pc = "worded"
    /\ \E wm \in {WordPatternNext(text, pos)} :
           /\ wm.matched
           /\ word_to_number(wm.words) = NoDecimal
           /\ pos' = ResumeAt(wm)
    /\ UNCHANGED <<text, pc, results, origin>>

\* an iteration of the worded loop that appends a mention (or in which
\* parse_amount_string raises)
WordedEmit ==
    /\ pc = "worded"
    /\ \E wm \in {WordPatternNext(text, pos)} :
           /\ wm.matched
           /\ \E num \in {word_to_number(wm.words)} :
                  /\ num # NoDecimal
                  /\ \E p \in {parse_amount_string(DecimalStr(num), OrEmpty(wm.suffix))} :
                         IF p.raised
                         THEN pc' = "raised" /\ UNCHANGED <<pos, results, origin>>
                         ELSE /\ results' = Append(results, WordedMention(text, wm, p))
                              /\ origin' = Append(origin, "worded")
                              /\ pos' = ResumeAt(wm)
                              /\ pc' = pc
    /\ UNCHANGED text

\* word_pattern.finditer is exhausted: return results
WordedEnd ==
    /\ pc = "worded"
    /\ ~WordPatternNext(text, pos).matched
    /\ pc' = "done"
    /\ UNCHANGED <<text, pos, results, origin>>

Next ==
    \/ GateReject
    \/ GatePass
    \/ NumericRaise
    \/ NumericSkip
    \/ NumericEmit
    \/ NumericEnd
    \/ WordedDiscard
    \/ WordedEmit
    \/ WordedEnd

Spec == Init /\ [][Next]_vars

(***************************************************************************)
(* Properties.  The operators of this section restate what the             *)
(* specification says in its own terms; none of them is used by the        *)
(* actions above.                                                          *)
(***************************************************************************)
Mentions == 1..Len(results)

IsNumeric(k) == origin[k] = "numeric"

IsWorded(k) == origin[k] = "worded"

\* str.upper() on one character
UpperChar(c) ==
    IF c \in Range(LowerLetters)
    THEN UpperLetters[CHOOSE i \in 1..26 : LowerLetters[i] = c]
    ELSE IF c = "long s" THEN "S"
    ELSE IF c = "dotless i" THEN "I"
    ELSE c

\* two characters are the same but for case: their lower-case forms or
\* their upper-case forms coincide
SameButCase(a, b) == LowerChar(a) = LowerChar(b) \/ UpperChar(a) = UpperChar(b)

\* s is the word w but for case
IsButCase(s, w) ==
    Len(s) = Len(w) /\ \A j \in 1..Len(w) : SameButCase(s[j], w[j])

\* t holds the word w somewhere, case ignored
HoldsButCase(t, w) ==
    \E i \in 0..(Len(t) - Len(w)) : IsButCase(Slice(t, i, i + Len(w)), w)

GateKeywords ==
    {<<"l", "i", "m", "i", "t">>, <<"t", "r", "a", "n", "s", "a", "c", "t", "i", "o", "n">>, <<"a", "m", "o", "u", "n", "t">>, <<"t", "r", "a", "n", "s", "f", "e", "r">>, <<"a", "l", "l", "o", "w">>, <<"a", "p", "p", "r", "o", "v", "e">>,
     <<"u", "p", "t", "o">>, <<"i", "n", "c", "r", "e", "a", "s", "e">>, <<"s", "e", "t", " ", "l", "i", "m", "i", "t">>, <<"r", "e", "q", "u", "e", "s", "t", "i", "n", "g">>}

HoldsKeyword(t) == \E w \in GateKeywords : HoldsButCase(t, w)

HoldsDigit(t) == \E i \in 1..Len(t) : t[i] \in Digits

AllDigits(s) == s # <<>> /\ \A i \in 1..Len(s) : s[i] \in Digits

\* C1: extract_amounts never raises: whatever the text, the call does not
\* end in an exception.
C1_NeverRaises == pc # "raised"

\* C2: for a text that holds none of the transaction keywords, case ignored,
\* extract_amounts returns the empty sequence (and does not raise): no
\* mention is ever appended.
C2_NoKeywordNoMention ==
    ~HoldsKeyword(text) => results = <<>> /\ pc # "raised"

\* a call that returned for a text with a digit and without a keyword
C2_DigitsWithoutKeyword ==
    pc = "done" /\ ~HoldsKeyword(text) /\ HoldsDigit(text) /\ results = <<>>

Ceiling == <<"1", "0", "0", "0", "0", "0", "0", "0", "0">>

\* C3: no mention of the result is a digit literal above 100,000,000: a
\* mention whose text is digits only has a number of at most 100,000,000.
C3_NoLiteralAboveCeiling ==
    \A k \in Mentions :
        AllDigits(results[k].text) => ~DigitsLess(Ceiling, StripZeros(results[k].text))

\* the offset of the first c of s from offset i on, Len(s) when there is none
RECURSIVE FindChar(_, _, _)
FindChar(s, c, i) ==
    IF i >= Len(s) \/ s[i + 1] = c THEN i ELSE FindChar(s, c, i + 1)

RECURSIVE NatOf(_)
NatOf(d) ==
    IF d = <<>> THEN 0
    ELSE 10 * NatOf(SubSeq(d, 1, Len(d) - 1)) + DigitVal(d[Len(d)])

SignedOf(e) ==
    IF e = <<>> THEN 0
    ELSE IF Head(e) = "-" THEN 0 - NatOf(Tail(e))
    ELSE IF Head(e) = "+" THEN NatOf(Tail(e))
    ELSE NatOf(e)

\* a decimal string is a mantissa, with or without a decimal point, and
\* perhaps an exponent after an E
MantissaOf(s) == Slice(s, 0, FindChar(s, "E", 0))

ExponentOf(s) == SignedOf(SubSeq(s, FindChar(s, "E", 0) + 2, Len(s)))

FractionOf(mantissa) ==
    IF FindChar(mantissa, ".", 0) = Len(mantissa) THEN 0
    ELSE Len(mantissa) - FindChar(mantissa, ".", 0) - 1

\* the zeros of the multiplier a unit_multiplier denotes; -1 for a string
\* that denotes none
ZerosOfUnit(u) ==
    CASE u = <<"l", "a", "k", "h">> -> 5
      [] u = <<"c", "r", "o", "r", "e">> -> 7
      [] u = <<"t", "h", "o", "u", "s", "a", "n", "d">> -> 3
      [] u = <<"m", "i", "l", "l", "i", "o", "n">> -> 6
      [] u = <<"b", "i", "l", "l", "i", "o", "n">> -> 9
      [] u = <<"1">> -> 0
      [] OTHER -> 0 - 1

\* the number with the given digits, the last `scale` of them after the
\* decimal point, rounded half up to an integer
HalfUpCut(padded, scale) ==
    StripZeros(IF DigitVal(padded[Len(padded) - scale + 1]) >= 5
               THEN Increment(SubSeq(padded, 1, Len(padded) - scale))
               ELSE SubSeq(padded, 1, Len(padded) - scale))

HalfUp(digits, scale) ==
    IF scale <= 0 THEN StripZeros(digits \o Zeros(0 - scale))
    ELSE HalfUpCut(Zeros(scale) \o digits, scale)

\* round-half-up of raw_number times the multiplier of unit_multiplier
Rederived(m) ==
    HalfUp(RemoveChar(MantissaOf(m.raw_number), "."),
           FractionOf(MantissaOf(m.raw_number)) - ExponentOf(m.raw_number)
               - ZerosOfUnit(m.unit_multiplier))

\* C4: every mention's value is round-half-up of its raw_number, read as a
\* decimal, times the multiplier its unit_multiplier denotes.
C4_ValueRederived ==
    \A k \in Mentions :
        /\ ZerosOfUnit(results[k].unit_multiplier) >= 0
        /\ results[k].value = Rederived(results[k])

NeedExample == <<"N", "e", "e", "d", " ", "₹", "2", ".", "5", " ", "c", "r", "o", "r", "e", " ", "A", "S", "A", "P">>

\* C5: extract_amounts("Need ₹2.5 crore ASAP") returns exactly one mention,
\* with raw_number "2.5", value 25000000 and currency "INR".
C5_ExampleOneMention ==
    (text = NeedExample /\ pc = "done") =>
        /\ Len(results) = 1
        /\ results[1].raw_number = <<"2", ".", "5">>
        /\ results[1].value = <<"2", "5", "0", "0", "0", "0", "0", "0">>
        /\ results[1].currency = <<"I", "N", "R">>

\* C5 as amended: extract_amounts("Need ₹2.5 crore ASAP") returns the empty
\* sequence, the text holding no transaction keyword.
C5_ExampleNoMention ==
    text = NeedExample => results = <<>> /\ pc # "raised"

\* the call for the example has returned
C5_ExampleReturned == text = NeedExample /\ pc = "done"

\* number phrases, each with its number, and magnitude words, each with its
\* unit and the zeros of the unit's multiplier
NumberPhrases == {<<<<"t", "w", "o">>, <<"2">>>>, <<<<"f", "i", "v", "e">>, <<"5">>>>, <<<<"h", "u", "n", "d", "r", "e", "d">>, <<"1", "0", "0">>>>}

MagnitudeWords ==
    {<<<<"l", "a", "k", "h">>, <<"l", "a", "k", "h">>, 5>>, <<<<"l", "a", "c">>, <<"l", "a", "k", "h">>, 5>>, <<<<"l", "a", "c", "s">>, <<"l", "a", "k", "h">>, 5>>,
     <<<<"c", "r", "o", "r", "e">>, <<"c", "r", "o", "r", "e">>, 7>>, <<<<"c", "r">>, <<"c", "r", "o", "r", "e">>, 7>>,
     <<<<"m", "i", "l", "l", "i", "o", "n">>, <<"m", "i", "l", "l", "i", "o", "n">>, 6>>, <<<<"m">>, <<"m", "i", "l", "l", "i", "o", "n">>, 6>>}

\* the phrase p, one space and the magnitude word g stand at offset i of t
\* as whole words
PhraseAt(t, i, p, g) ==
    /\ StartsWithAt(t, i, p[1] \o <<" ">> \o g[1])
    /\ WordBoundary(t, i)
    /\ WordBoundary(t, i + Len(p[1]) + 1 + Len(g[1]))

\* the worded scanner's mention for the phrase p with the magnitude word g
IsPhraseMention(k, p, g) ==
    /\ IsWorded(k)
    /\ results[k].suffix = g[1]
    /\ results[k].unit_multiplier = g[2]
    /\ results[k].value = p[2] \o Zeros(g[3])
    /\ results[k].currency = <<"I", "N", "R">>

\* C6: when a keyword-bearing text holds a number phrase directly followed by
\* a magnitude word, the result holds a worded mention whose suffix is that
\* word, whose unit_multiplier is its unit, whose value is the number times
\* the unit's multiplier and whose currency is "INR".
C6_PhraseWithMagnitude ==
    (pc = "done" /\ HoldsKeyword(text)) =>
        \A i \in 0..Len(text) : \A p \in NumberPhrases : \A g \in MagnitudeWords :
            PhraseAt(text, i, p, g) => \E k \in Mentions : IsPhraseMention(k, p, g)

\* C7: the result is the numeric scanner's mentions followed by the worded
\* scanner's; within either part the spans do not overlap and start at
\* strictly increasing offsets.
C7_NumericThenWorded ==
    \A i \in Mentions : \A j \in Mentions :
        i < j =>
            /\ ~(IsWorded(i) /\ IsNumeric(j))
            /\ origin[i] = origin[j] =>
                   /\ results[i].start < results[j].start
                   /\ results[i].end <= results[j].start

\* a result with two numeric mentions and then a worded mention whose span
\* starts before theirs
C7_WordedStartsEarlier ==
    /\ pc = "done"
    /\ \E i \in Mentions : \E j \in Mentions : \E k \in Mentions :
           /\ i < j /\ j < k
           /\ IsNumeric(i) /\ IsNumeric(j) /\ IsWorded(k)
           /\ results[k].start < results[i].start

\* the offset where the marker at the head of a numeric mention's text ends:
\* the text up to its first whitespace or digit
RECURSIVE MarkerEnd(_, _)
MarkerEnd(s, i) ==
    IF i < Len(s) /\ ~IsSpace(s[i + 1]) /\ ~IsDigit(s[i + 1])
    THEN MarkerEnd(s, i + 1) ELSE i

MarkerOf(m) == Slice(m.text, 0, MarkerEnd(m.text, 0))

MarkerAmong(m, ws) == \E w \in ws : IsButCase(MarkerOf(m), w)

\* C8: a numeric mention's currency is "USD" exactly when its marker is "$"
\* or "usd" in any case, "INR" exactly when it is the rupee sign, "rs", "rs."
\* or "inr" in any case, and "unknown" exactly when there is no marker; a
\* worded mention's currency is "INR".
C8_CurrencyCanonical ==
    \A k \in Mentions :
        IF IsWorded(k) THEN results[k].currency = <<"I", "N", "R">>
        ELSE /\ results[k].currency = <<"U", "S", "D">> <=> MarkerAmong(results[k], {<<"$">>, <<"u", "s", "d">>})
             /\ results[k].currency = <<"I", "N", "R">> <=>
                    MarkerAmong(results[k], {<<"₹">>, <<"r", "s">>, <<"r", "s", ".">>, <<"i", "n", "r">>})
             /\ results[k].currency = <<"u", "n", "k", "n", "o", "w", "n">> <=> MarkerOf(results[k]) = <<>>
             /\ results[k].currency \in {<<"U", "S", "D">>, <<"I", "N", "R">>, <<"u", "n", "k", "n", "o", "w", "n">>}

\* C9: no numeric mention has a suffix together with the unit_multiplier "1".
C9_SuffixResolved ==
    \A k \in Mentions :
        (IsNumeric(k) /\ results[k].suffix # None) => results[k].unit_multiplier # <<"1">>

\* C10: the suffix of a numeric mention ends at a word boundary of the text:
\* the character at offset `end`, if any, is no letter and no digit.
C10_SuffixWholeToken ==
    \A k \in Mentions :
        (IsNumeric(k) /\ results[k].suffix # None /\ results[k].end < Len(text)) =>
            text[results[k].end + 1] \notin Letters \cup Digits
====
